---------------------------- MODULE Spec2Model ----------------------------
(***************************************************************************)
(* rangetar: a tar archive of a directory tree, synthesised as an ordered  *)
(* list of segments (Static header bytes, lazily read File contents,       *)
(* Zeroes padding) and served through a seekable cursor.                    *)
(*                                                                         *)
(* Bytes are symbolic: <<"hdr", path, i>> is byte i of the header of the    *)
(* entry at path, <<"dat", path, p>> is the byte at position p of the file  *)
(* at path, <<"zero">> is a zero byte and <<"old">> is whatever the         *)
(* caller's buffer held before the call.  A byte string is held as its      *)
(* run-length encoding: a sequence of runs [tag, path, start, len], the     *)
(* run standing for the len bytes <<tag, path, start>>, <<tag, path,        *)
(* start + 1>>, ...  (len copies of <<tag>> for "zero" and "old"), with no  *)
(* empty run and no two neighbours that are one run, so that two strings    *)
(* are equal exactly when their encodings are.                              *)
(***************************************************************************)
EXTENDS Integers, Sequences, FiniteSets, TLC

VARIABLES
    tree,       \* the directory tree under the scanned path, as read_dir yields it
    fault,      \* the call of the scan that returns an io::Error, if one does
    phase,      \* "start" | "mapping" | "ready" | "failed": position in Index::scan
    entries,    \* WriteIndex.entries still to be mapped to segments
    segments,   \* Index.segments
    disk,       \* current size of every backing file, by path
    cur,        \* the SeekReader: [idx |-> position in segments, offset |-> u64]
    seekpos,    \* the absolute offset the cursor was created at
    pc,         \* "none" | "idle" | "loop" | "file" | "file_ret": position in read
    buf,        \* the caller's buffer of the read call in progress
    nread,      \* SeekReader::read's nread
    fpos,       \* the file position of every file handle, by path
    nbytes,     \* Segment::read's nbytes (File)
    want,       \* buf.len() of the last read call
    result,     \* what the last read call returned: NoResult, Err or Ok(n)
    out,        \* bytes delivered by the cursor since it was created
    reads,      \* read calls made on the cursor
    sawzero,    \* a read with a non-empty buffer has returned 0 on this cursor
    erred,      \* a read on this cursor has returned Err
    ioerrs,     \* the kinds of the errors the file handles returned in the last call
    callpos,    \* the absolute position of the cursor when the call in progress began
    resized,    \* paths of the files whose size has changed since the scan
    parked      \* a second SeekReader of the index, between two of its calls

vars == <<tree, fault, phase, entries, segments, disk, cur, seekpos, pc, buf, nread,
          fpos, nbytes, want, result, out, reads, sawzero, erred, ioerrs, callpos,
          resized, parked>>

scanVars == <<tree, fault, phase, entries, segments>>
readVars == <<cur, seekpos, pc, buf, nread, fpos, nbytes, want, result, out, reads,
              sawzero, erred, ioerrs, callpos>>
envVars == <<disk, resized>>

-----------------------------------------------------------------------------
(* Bounds and program constants *)

TAR_BLOCK_SIZE == 512

MaxFileSize == 3
MaxReads == 2

Min(a, b) == IF a <= b THEN a ELSE b
Max(a, b) == IF a >= b THEN a ELSE b

\* Result<usize, io::Error>, and no call made yet
NoResult == [kind |-> "none", n |-> 0]
Ok(n) == [kind |-> "ok", n |-> n]
Err == [kind |-> "err", n |-> 0]

\* u64::saturating_sub
SatSub(a, b) == IF a >= b THEN a - b ELSE 0

\* int::converting_min; every u64 of the model fits usize
converting_min(a, b) == Min(a, b)

-----------------------------------------------------------------------------
(* The directory tree *)

Node(k, s, o, ks) == [kind |-> k, size |-> s, openable |-> o, kids |-> ks]

\* Header::entry_size after set_metadata_in_mode: the file's length, 0 for a
\* directory; device nodes have length 0
File(s, o) == Node("file", s, o, <<>>)
Dir(o, ks) == Node("dir", 0, o, ks)
Symlink == Node("symlink", 0, TRUE, <<>>)
Device(o) == Node("device", 0, o, <<>>)


\* The trees the read engine is exercised on: nothing, one regular file of
\* every size, and a file that cannot be opened beside one that can
ReadTrees ==
    {<<>>}
    \cup {<<File(s, TRUE)>> : s \in 0..MaxFileSize}
    \cup {<<File(1, FALSE), File(MaxFileSize, TRUE)>>}

\* The trees the scan is exercised on: up to MaxEntries entries in the root,
\* directories holding up to MaxKids leaves
MaxEntries == 2
MaxKids == 1

ScanSizes == {0, 5, 512, 513}

Leaves ==
    {File(s, o) : s \in ScanSizes, o \in BOOLEAN}
    \cup {Symlink} \cup {Device(o) : o \in BOOLEAN}

SeqsUpTo(S, n) == UNION {[1..k -> S] : k \in 0..n}

KidLeaves == {File(0, TRUE), File(5, FALSE), Symlink, Device(TRUE)}

ScanNodes == Leaves \cup {Dir(TRUE, ks) : ks \in SeqsUpTo(KidLeaves, MaxKids)}

ScanTrees == SeqsUpTo(ScanNodes, MaxEntries)

-----------------------------------------------------------------------------
(* Index::scan *)

IndexEntry(p, n) == [path |-> p, kind |-> n.kind, size |-> n.size, openable |-> n.openable]

\* a walk that does not go into directories
RECURSIVE traverseFlat(_, _, _)
traverseFlat(path, kids, i) ==
    IF i > Len(kids) THEN <<>>
    ELSE (IF kids[i].kind = "symlink" THEN <<>>
          ELSE <<[path |-> Append(path, i), kind |-> kids[i].kind, size |-> kids[i].size,
                  openable |-> kids[i].openable]>>)
         \o traverseFlat(path, kids, i + 1)

\* traverse: depth first, in read_dir order; a symlink is skipped, every
\* other entry is added, and a directory is descended into after it is added
RECURSIVE traverse(_, _, _)
traverse(path, kids, i) ==
    IF i > Len(kids) THEN <<>>
    ELSE LET n == kids[i]
             p == Append(path, i)
             here == IF n.kind = "symlink" THEN <<>>
                     ELSE <<IndexEntry(p, n)>>
                          \o (IF n.kind = "dir" THEN traverse(p, n.kids, 1) ELSE <<>>)
         IN here \o traverse(path, kids, i + 1)

Static(e) == [type |-> "Static", path |-> e.path, size |-> TAR_BLOCK_SIZE]
FileSegment(e) == [type |-> "File", path |-> e.path, size |-> e.size]
Zeroes(n) == [type |-> "Zeroes", path |-> <<>>, size |-> n]

\* a padding of as many bytes as the last block holds
PaddingOfRemainder(entry_size) ==
    IF (entry_size % TAR_BLOCK_SIZE) > 0
    THEN <<Zeroes(entry_size % TAR_BLOCK_SIZE)>>
    ELSE <<>>

\* pad to next tar block
Padding(entry_size) ==
    LET size_modulo_block == entry_size % TAR_BLOCK_SIZE
    IN IF size_modulo_block > 0
       THEN <<Zeroes(TAR_BLOCK_SIZE - size_modulo_block)>>
       ELSE <<>>

\* a mapping that has pushed the header before it opens the file
EntrySegmentsHeaderFirst(e) ==
    IF ~e.openable THEN <<[type |-> "Static", path |-> e.path, size |-> TAR_BLOCK_SIZE]>>
    ELSE <<[type |-> "Static", path |-> e.path, size |-> TAR_BLOCK_SIZE],
           [type |-> "File", path |-> e.path, size |-> e.size]>>
         \o (IF (e.size % TAR_BLOCK_SIZE) > 0
             THEN <<[type |-> "Zeroes", path |-> <<>>,
                     size |-> TAR_BLOCK_SIZE - (e.size % TAR_BLOCK_SIZE)]>>
             ELSE <<>>)

\* the segments one entry is mapped to: none when File::open fails
EntrySegments(e) ==
    IF ~e.openable THEN <<>>
    ELSE <<Static(e), FileSegment(e)>> \o Padding(e.size)

\* a terminator of one block
TerminatorOneBlock == Zeroes(TAR_BLOCK_SIZE)

Terminator == Zeroes(TAR_BLOCK_SIZE * 2)

\* The calls of the scan whose error is returned with `?`: fs::read_dir and
\* the directory iterator (at a directory, <<>> being the scanned path),
\* file.metadata() (at every entry), header.set_path (at every entry but a
\* symlink) and header.entry_size() (at every index entry)
NoFault == [kind |-> "none", path |-> <<>>]
Fault(k, p) == [kind |-> k, path |-> p]
Fails(k, p) == fault = Fault(k, p)

\* traverse returns Err: the walk of traverse, keeping only whether a `?`
\* has returned
RECURSIVE traverseErr(_, _, _)
traverseErr(path, kids, i) ==
    IF i > Len(kids) THEN FALSE
    ELSE LET n == kids[i]
             p == Append(path, i)
         IN \/ Fails("metadata", p)
            \/ /\ n.kind # "symlink"
               /\ \/ Fails("set_path", p)
                  \/ /\ n.kind = "dir"
                     /\ Fails("read_dir", p) \/ traverseErr(p, n.kids, 1)
            \/ traverseErr(path, kids, i + 1)

\* an entry_size that reads a header it cannot decode as size 0
entry_size_lenient(e) == [kind |-> "ok", n |-> IF Fails("entry_size", e.path) THEN 0 ELSE e.size]

\* entry.header.entry_size()
entry_size(e) == IF Fails("entry_size", e.path) THEN Err ELSE Ok(e.size)

\* every path of a tree (symlinks included)
RECURSIVE Paths(_, _, _)
Paths(path, kids, i) ==
    IF i > Len(kids) THEN {}
    ELSE {Append(path, i)} \cup Paths(Append(path, i), kids[i].kids, 1)
         \cup Paths(path, kids, i + 1)

RECURSIVE NodeAt(_, _)
NodeAt(kids, p) == IF Len(p) = 1 THEN kids[p[1]] ELSE NodeAt(kids[p[1]].kids, Tail(p))

\* a SeekReader and what its caller has got from it
Reader(c, sp, p, w, r, o, n, z, e, io) ==
    [cur |-> c, seekpos |-> sp, pc |-> p, want |-> w, result |-> r, out |-> o,
     reads |-> n, sawzero |-> z, erred |-> e, ioerrs |-> io]

\* before Index::seek has returned one
NoReader == Reader([idx |-> 1, offset |-> 0], 0, "none", 0, NoResult, <<>>, 0, FALSE, FALSE, <<>>)

InitRest ==
    /\ phase = "start"
    /\ entries = <<>>
    /\ segments = <<>>
    /\ disk = [p \in Paths(<<>>, tree, 1) |-> NodeAt(tree, p).size]
    /\ cur = [idx |-> 1, offset |-> 0]
    /\ seekpos = 0
    /\ pc = "none"
    /\ buf = <<>>
    /\ nread = 0
    /\ fpos = [p \in Paths(<<>>, tree, 1) |-> 0]
    /\ nbytes = 0
    /\ want = 0
    /\ result = NoResult
    /\ out = <<>>
    /\ reads = 0
    /\ sawzero = FALSE
    /\ erred = FALSE
    /\ ioerrs = <<>>
    /\ callpos = 0
    /\ resized = {}
    /\ parked = NoReader

InitWith(trees) ==
    /\ tree \in trees
    /\ fault = NoFault
    /\ InitRest

Init == InitWith(ReadTrees)
ScanInit == InitWith(ScanTrees)

\* scan all files under path
ScanTraverse ==
    /\ phase = "start"
    /\ IF Fails("read_dir", <<>>) \/ traverseErr(<<>>, tree, 1)
       THEN /\ entries' = <<>>
            /\ phase' = "failed"
       ELSE /\ entries' = traverse(<<>>, tree, 1)
            /\ phase' = "mapping"
    /\ UNCHANGED <<tree, fault, segments>>
    /\ UNCHANGED <<readVars, envVars, parked>>

\* map one index entry into segments; an Err of entry_size is returned and
\* the segments pushed so far are dropped
ScanEntry ==
    /\ phase = "mapping"
    /\ entries # <<>>
    /\ IF entry_size(Head(entries)).kind = "err"
       THEN /\ segments' = <<>>
            /\ entries' = <<>>
            /\ phase' = "failed"
       ELSE /\ segments' = segments \o EntrySegments(Head(entries))
            /\ entries' = Tail(entries)
            /\ phase' = phase
    /\ UNCHANGED <<tree, fault>>
    /\ UNCHANGED <<readVars, envVars, parked>>

\* write two blocks of zeroes to mark end of tar, and return the index
ScanFinish ==
    /\ phase = "mapping"
    /\ entries = <<>>
    /\ segments' = Append(segments, Terminator)
    /\ phase' = "ready"
    /\ UNCHANGED <<tree, fault, entries>>
    /\ UNCHANGED <<readVars, envVars, parked>>

ScanNext == ScanTraverse \/ ScanEntry \/ ScanFinish

ScanSpec == ScanInit /\ [][ScanNext]_vars

\* The scans in which one call fails: trees of up to MaxEntries entries, a
\* file, a symlink or a directory of one file, and one failing call
FaultNodes == {File(5, TRUE), Symlink, Dir(TRUE, <<File(0, TRUE)>>)}
FaultTrees == SeqsUpTo(FaultNodes, MaxEntries)

Faults(t) ==
    {NoFault, Fault("read_dir", <<>>)}
    \cup {Fault("metadata", p) : p \in Paths(<<>>, t, 1)}
    \cup {Fault(k, p) : k \in {"set_path", "entry_size"},
                        p \in {q \in Paths(<<>>, t, 1) : NodeAt(t, q).kind # "symlink"}}
    \cup {Fault("read_dir", p) : p \in {q \in Paths(<<>>, t, 1) : NodeAt(t, q).kind = "dir"}}

FaultInit ==
    /\ tree \in FaultTrees
    /\ fault \in Faults(tree)
    /\ InitRest

FaultSpec == FaultInit /\ [][ScanNext]_vars

-----------------------------------------------------------------------------
(* Segments *)

\* a byte size that asks the file for its length
byte_size_of_disk(segment) ==
    IF segment.type = "File" THEN disk[segment.path] ELSE segment.size

byte_size(segment) == segment.size

Run(tag, path, start, len) == [tag |-> tag, path |-> path, start |-> start, len |-> len]
OldRun(len) == Run("old", <<>>, 0, len)
ZeroRun(len) == Run("zero", <<>>, 0, len)

Constant(r) == r.tag \in {"old", "zero"}

\* byte k (0-based) of a run
RunByte(r, k) == IF Constant(r) THEN <<r.tag>> ELSE <<r.tag, r.path, r.start + k>>

Joinable(a, b) ==
    /\ a.tag = b.tag
    /\ a.path = b.path
    /\ Constant(a) \/ b.start = a.start + a.len

\* the encoding: empty runs dropped, neighbours joined
RECURSIVE Pack(_)
Pack(rs) ==
    IF rs = <<>> THEN <<>>
    ELSE LET h == Head(rs)
             rest == Pack(Tail(rs))
         IN IF h.len = 0 THEN rest
            ELSE IF rest # <<>> /\ Joinable(h, Head(rest))
                 THEN <<[h EXCEPT !.len = h.len + Head(rest).len]>> \o Tail(rest)
                 ELSE <<h>> \o rest

\* the number of bytes of a string
RECURSIVE Size(_)
Size(rs) == IF rs = <<>> THEN 0 ELSE Head(rs).len + Size(Tail(rs))

\* the first n bytes of a string
RECURSIVE Take(_, _)
Take(rs, n) ==
    IF n = 0 \/ rs = <<>> THEN <<>>
    ELSE LET h == Head(rs)
         IN IF h.len <= n THEN <<h>> \o Take(Tail(rs), n - h.len)
            ELSE <<[h EXCEPT !.len = n]>>

\* a string without its first n bytes
RECURSIVE Drop(_, _)
Drop(rs, n) ==
    IF n = 0 \/ rs = <<>> THEN rs
    ELSE LET h == Head(rs)
         IN IF h.len <= n THEN Drop(Tail(rs), n - h.len)
            ELSE <<[h EXCEPT !.len = h.len - n,
                             !.start = IF Constant(h) THEN 0 ELSE h.start + n]>>
                 \o Tail(rs)

\* bytes from (inclusive) to to (exclusive) of a string, 0-based
Slice(rs, from, to) == Pack(Take(Drop(rs, from), to - from))

\* byte i (0-based) of a string
ByteAt(rs, i) == RunByte(Head(Drop(rs, i)), 0)

\* b with the bytes of run r written from index `from` (0-based) on
WriteBytes(b, from, r) == Pack(Take(b, from) \o <<r>> \o Drop(b, from + r.len))

\* Segment::read, Static: the count, and the buffer slice after the copy
StaticCount(segment, offset, len) == Min(SatSub(segment.size, offset), len)

\* Segment::read, Zeroes
ZeroesCount(segment, offset, len) == converting_min(SatSub(segment.size, offset), len)

\* n bytes of a Static segment from byte i on: the header of its entry
StaticBytes(segment, i, n) == Run("hdr", segment.path, i, n)

\* n bytes of the file at path from position p on, as the disk holds them
FileBytes(path, p, n) == Run("dat", path, p, n)

-----------------------------------------------------------------------------
(* Index::seek *)

\* skip past irrelevant segments: idx is the segment the iterator peeks at
RECURSIVE SeekFrom(_, _, _)
SeekFrom(idx, skipped, offset) ==
    IF idx <= Len(segments) /\ skipped + byte_size(segments[idx]) <= offset
    THEN SeekFrom(idx + 1, skipped + byte_size(segments[idx]), offset)
    ELSE [idx |-> idx, offset |-> offset - skipped]

\* a seek that stops at the segment that ends at the offset
RECURSIVE SeekFromStrict(_, _, _)
SeekFromStrict(idx, skipped, offset) ==
    IF idx <= Len(segments) /\ skipped + segments[idx].size < offset
    THEN SeekFromStrict(idx + 1, skipped + segments[idx].size, offset)
    ELSE [idx |-> idx, offset |-> offset - skipped]

seekStrict(offset) == SeekFromStrict(1, 0, offset)

\* a seek that goes past every segment that starts at or before the offset
RECURSIVE SeekFromGreedy(_, _, _)
SeekFromGreedy(idx, skipped, offset) ==
    IF idx <= Len(segments) /\ skipped <= offset
    THEN SeekFromGreedy(idx + 1, skipped + segments[idx].size, offset)
    ELSE [idx |-> idx, offset |-> offset - skipped]

seekGreedy(offset) == SeekFromGreedy(1, 0, offset)

seek(offset) == SeekFrom(1, 0, offset)

RECURSIVE SumSizes(_, _)
SumSizes(segs, n) == IF n = 0 THEN 0 ELSE SumSizes(segs, n - 1) + byte_size(segs[n])

\* the archive's total length
TotalLength == SumSizes(segments, Len(segments))

\* the bytes of the archive that lie before segment idx
CumulativeBefore(idx) == SumSizes(segments, idx - 1)

\* the absolute position of the cursor
Position == CumulativeBefore(cur.idx) + cur.offset

\* the segment boundaries of the index
Boundaries == {SumSizes(segments, n) : n \in 0..Len(segments)}

\* the offsets seek is called with: each segment boundary and the byte
\* before it, and one byte past the end of the archive
SeekOffsets ==
    {o \in UNION {{b - 1, b} : b \in Boundaries} : o >= 0} \cup {TotalLength + 1}

\* the buffer lengths read is called with: empty, shorter than a file,
\* one block, and longer than every archive read here
BufLens == {0, 2, TAR_BLOCK_SIZE, 4 * TAR_BLOCK_SIZE + 1}

Seek(o) ==
    /\ phase = "ready"
    /\ pc \in {"none", "idle"}
    /\ cur' = seek(o)
    /\ seekpos' = o
    /\ pc' = "idle"
    /\ want' = 0
    /\ result' = NoResult
    /\ out' = <<>>
    /\ reads' = 0
    /\ sawzero' = FALSE
    /\ erred' = FALSE
    /\ ioerrs' = <<>>
    /\ UNCHANGED <<buf, nread, fpos, nbytes, callpos>>
    /\ UNCHANGED <<scanVars, envVars, parked>>

-----------------------------------------------------------------------------
(* SeekReader::read *)

\* a peek that never yields the last segment
HasAnotherSegment == cur.idx < Len(segments)

\* self.segments.peek() is Some
HasSegment == cur.idx <= Len(segments)
Segment == segments[cur.idx]

\* the part of the buffer a segment read is handed: buf[nread..]
SliceLen == Size(buf) - nread

ReadCall(len) ==
    /\ pc = "idle"
    /\ reads < MaxReads
    /\ buf' = Pack(<<OldRun(len)>>)
    /\ want' = len
    /\ nread' = 0
    /\ pc' = "loop"
    /\ ioerrs' = <<>>
    /\ callpos' = Position
    /\ UNCHANGED <<cur, seekpos, fpos, nbytes, result, out, reads, sawzero, erred>>
    /\ UNCHANGED <<scanVars, envVars, parked>>

\* the loop ends: no segment is left, or the buffer is full
ReadReturn ==
    /\ pc = "loop"
    /\ ~HasSegment \/ nread = Size(buf)
    /\ pc' = "idle"
    /\ result' = Ok(nread)
    /\ out' = Pack(out \o Take(buf, nread))
    /\ reads' = reads + 1
    /\ sawzero' = (sawzero \/ (nread = 0 /\ Size(buf) > 0))
    /\ buf' = <<>>
    /\ nread' = 0
    /\ callpos' = 0
    /\ UNCHANGED <<cur, seekpos, fpos, nbytes, erred, ioerrs, want>>
    /\ UNCHANGED <<scanVars, envVars, parked>>

\* a cursor that keeps its offset when it moves on
NextSegmentKeepsOffset(c, segment_size) == [idx |-> c.idx + 1, offset |-> c.offset]

\* the cursor after a segment it has consumed
NextSegment(c, segment_size) == [idx |-> c.idx + 1, offset |-> c.offset - segment_size]

\* self.offset >= segment_size: move to the next segment
ReadSkip ==
    /\ pc = "loop"
    /\ HasSegment /\ nread # Size(buf)
    /\ cur.offset >= byte_size(Segment)
    /\ cur' = NextSegment(cur, byte_size(Segment))
    /\ UNCHANGED <<seekpos, pc, buf, nread, fpos, nbytes, result, out, reads, sawzero, erred, ioerrs, want, callpos>>
    /\ UNCHANGED <<scanVars, envVars, parked>>

\* a cursor that stays where it is
AdvanceStays(c, segment_read) == c

\* the cursor and the count after a segment read that returned segment_read
Advance(c, segment_read) == [idx |-> c.idx, offset |-> c.offset + segment_read]

\* segment.read on a Static segment, and the bookkeeping after it
ReadStatic ==
    /\ pc = "loop"
    /\ HasSegment /\ nread # Size(buf)
    /\ cur.offset < byte_size(Segment)
    /\ Segment.type = "Static"
    /\ LET n == StaticCount(Segment, cur.offset, SliceLen)
       IN /\ buf' = WriteBytes(buf, nread, StaticBytes(Segment, cur.offset, n))
          /\ cur' = Advance(cur, n)
          /\ nread' = nread + n
    /\ UNCHANGED <<seekpos, pc, fpos, nbytes, result, out, reads, sawzero, erred, ioerrs, want, callpos>>
    /\ UNCHANGED <<scanVars, envVars, parked>>

\* segment.read on a Zeroes segment, and the bookkeeping after it
ReadZeroes ==
    /\ pc = "loop"
    /\ HasSegment /\ nread # Size(buf)
    /\ cur.offset < byte_size(Segment)
    /\ Segment.type = "Zeroes"
    /\ LET n == ZeroesCount(Segment, cur.offset, SliceLen)
       IN /\ buf' = WriteBytes(buf, nread, ZeroRun(n))
          /\ cur' = Advance(cur, n)
          /\ nread' = nread + n
    /\ UNCHANGED <<seekpos, pc, fpos, nbytes, result, out, reads, sawzero, erred, ioerrs, want, callpos>>
    /\ UNCHANGED <<scanVars, envVars, parked>>

-----------------------------------------------------------------------------
(* Segment::read, File: one step per call on the file handle *)

\* a seek that leaves the handle where the last read on it ended
SeekKeepsPosition(pos, offset) == pos

\* the position of a handle at pos after seek(SeekFrom::Start(offset))
SeekStart(pos, offset) == offset

\* file.borrow_mut() and file.seek(SeekFrom::Start(offset))
FileSeek ==
    /\ pc = "loop"
    /\ HasSegment /\ nread # Size(buf)
    /\ cur.offset < byte_size(Segment)
    /\ Segment.type = "File"
    /\ fpos' = [fpos EXCEPT ![Segment.path] = SeekStart(@, cur.offset)]
    /\ nbytes' = 0
    /\ pc' = "file"
    /\ UNCHANGED <<cur, seekpos, buf, nread, result, out, reads, sawzero, erred, ioerrs, want, callpos>>
    /\ UNCHANGED <<scanVars, envVars, parked>>

\* the counts file.read may return when avail bytes lie between the file
\* position and the end of the file and the buffer has room for `room`:
\* all that fit, or a short read
ReadCounts(avail, room) == {Min(avail, room), 1}

\* where the zeroes written after an early end of file stop
FillTo(size, offset, len) == converting_min(SatSub(size, offset), len)

\* the count returned after an early end of file: nbytes is left as it is
EofCount(nb, fill_to) == nb

\* a clamp that keeps what was read: the buffer is longer than what is left
ClampCountUnclamped(size, offset, len) == len

\* the count returned when the file holds more than was promised
ClampCount(size, offset, len) == converting_min(SatSub(size, offset), len)

\* file.read returns Ok(0): reached EOF
FileReadEof ==
    /\ pc = "file"
    /\ SatSub(disk[Segment.path], fpos[Segment.path]) = 0
    /\ LET size == Segment.size
           early == cur.offset + nbytes < size
           fill_to == FillTo(size, cur.offset, SliceLen)
       IN /\ buf' = IF early
                    THEN WriteBytes(buf, nread + nbytes, ZeroRun(fill_to - nbytes))
                    ELSE buf
          /\ nbytes' = IF early THEN EofCount(nbytes, fill_to) ELSE nbytes
    /\ pc' = "file_ret"
    /\ UNCHANGED <<cur, seekpos, nread, fpos, result, out, reads, sawzero, erred, ioerrs, want, callpos>>
    /\ UNCHANGED <<scanVars, envVars, parked>>

\* file.read returns Ok(n), n > 0
FileReadData ==
    /\ pc = "file"
    /\ SatSub(disk[Segment.path], fpos[Segment.path]) > 0
    /\ \E n \in ReadCounts(SatSub(disk[Segment.path], fpos[Segment.path]), SliceLen - nbytes) :
          LET size == Segment.size
              nb == nbytes + n
              late == cur.offset + nb > size
          IN /\ buf' = WriteBytes(buf, nread + nbytes, FileBytes(Segment.path, fpos[Segment.path], n))
             /\ fpos' = [fpos EXCEPT ![Segment.path] = @ + n]
             /\ nbytes' = IF late THEN ClampCount(size, cur.offset, SliceLen) ELSE nb
             /\ pc' = IF late \/ ~(nb < SliceLen) THEN "file_ret" ELSE "file"
    /\ UNCHANGED <<cur, seekpos, nread, result, out, reads, sawzero, erred, ioerrs, want, callpos>>
    /\ UNCHANGED <<scanVars, envVars, parked>>

\* io::ErrorKind of the errors of a file handle
ErrorKinds == {"Interrupted", "Other"}

MaxInterrupts == 1

\* the Interrupted errors of the call so far
Interrupts == Len(SelectSeq(ioerrs, LAMBDA k : k = "Interrupted"))

\* a read loop that returns every error
RetriedNever(kind) == FALSE

\* Err(e) if e.kind() == ErrorKind::Interrupted => continue
Retried(kind) == kind = "Interrupted"

\* the `?` on a segment read: SeekReader::read returns the error, and
\* neither nread nor the buffer reaches the caller
ReturnErr ==
    /\ pc' = "idle"
    /\ result' = Err
    /\ reads' = reads + 1
    /\ erred' = TRUE
    /\ buf' = <<>>
    /\ nread' = 0
    /\ nbytes' = 0
    /\ callpos' = 0
    /\ UNCHANGED <<cur, seekpos, fpos, out, sawzero, want>>

\* file.seek(SeekFrom::Start(offset))? returns an error
FileSeekErr ==
    /\ pc = "loop"
    /\ HasSegment /\ nread # Size(buf)
    /\ cur.offset < byte_size(Segment)
    /\ Segment.type = "File"
    /\ ioerrs' = Append(ioerrs, "Other")
    /\ ReturnErr
    /\ UNCHANGED <<scanVars, envVars, parked>>

\* file.read returns an error: Interrupted is retried, every other error
\* is returned by the segment read and by the cursor read
FileReadErr(kind) ==
    /\ pc = "file"
    /\ kind = "Interrupted" => Interrupts < MaxInterrupts
    /\ ioerrs' = Append(ioerrs, kind)
    /\ IF Retried(kind)
       THEN UNCHANGED <<cur, seekpos, pc, buf, nread, fpos, nbytes, want, result, out,
                        reads, sawzero, erred, callpos>>
       ELSE ReturnErr
    /\ UNCHANGED <<scanVars, envVars, parked>>

\* Ok(nbytes), and the bookkeeping of the cursor after it
FileReturn ==
    /\ pc = "file_ret"
    /\ cur' = Advance(cur, nbytes)
    /\ nread' = nread + nbytes
    /\ pc' = "loop"
    /\ nbytes' = 0
    /\ UNCHANGED <<seekpos, buf, fpos, result, out, reads, sawzero, erred, ioerrs, want, callpos>>
    /\ UNCHANGED <<scanVars, envVars, parked>>

-----------------------------------------------------------------------------
(* The source tree changes under the index *)

\* the regular files the index holds a handle of
Backing == {seg.path : seg \in {x \in {segments[i] : i \in DOMAIN segments} :
                                   x.type = "File" /\ NodeAt(tree, x.path).kind = "file"}}

DiskSizes == 0..(MaxFileSize + 1)

\* A file's size is looked at by file.read alone, so a change takes effect
\* at the next file.read: changes are placed between two calls on the
\* cursor and between two calls on the file handle.
Resize(p, s) ==
    /\ phase = "ready"
    /\ pc \in {"idle", "file"}
    /\ s # disk[p]
    /\ disk' = [disk EXCEPT ![p] = s]
    /\ resized' = resized \cup {p}
    /\ UNCHANGED <<scanVars, readVars, parked>>

-----------------------------------------------------------------------------

ReadNext ==
    \/ \E o \in SeekOffsets : Seek(o)
    \/ \E len \in BufLens : ReadCall(len)
    \/ ReadReturn
    \/ ReadSkip
    \/ ReadStatic
    \/ ReadZeroes
    \/ FileSeek
    \/ FileReadEof
    \/ FileReadData
    \/ FileSeekErr
    \/ \E kind \in ErrorKinds : FileReadErr(kind)
    \/ FileReturn

EnvNext == \E p \in Backing, s \in DiskSizes : Resize(p, s)

Next == ScanNext \/ ReadNext \/ EnvNext

Spec == Init /\ [][Next]_vars

\* A call that has started runs on: the program is sequential and every call
\* on a file handle returns.  Nothing forces a new call, a change of the
\* source tree, or an I/O error.
ReadStep ==
    \/ ReadReturn
    \/ ReadSkip
    \/ ReadStatic
    \/ ReadZeroes
    \/ FileSeek
    \/ FileReadEof
    \/ FileReadData
    \/ FileReturn

FairSpec == Spec /\ WF_vars(ReadStep)

-----------------------------------------------------------------------------
(* Two cursors of one index *)

\* Index::seek takes &self, so a caller may hold several SeekReaders of one
\* index; each call of read runs to its end before the next one starts.
\* Between two calls the caller turns from one reader to the other: the
\* readers change places, the file handles and their positions are shared.
Switch ==
    /\ phase = "ready"
    /\ pc = "idle"
    /\ parked' = Reader(cur, seekpos, pc, want, result, out, reads, sawzero, erred, ioerrs)
    /\ cur' = parked.cur
    /\ seekpos' = parked.seekpos
    /\ pc' = parked.pc
    /\ want' = parked.want
    /\ result' = parked.result
    /\ out' = parked.out
    /\ reads' = parked.reads
    /\ sawzero' = parked.sawzero
    /\ erred' = parked.erred
    /\ ioerrs' = parked.ioerrs
    /\ UNCHANGED <<buf, nread, fpos, nbytes, callpos>>
    /\ UNCHANGED <<scanVars, envVars>>

\* one file of the largest size, so that a read of one reader can stop
\* inside the file the other reader is inside
TwoTrees == {<<File(MaxFileSize, TRUE)>>}

TwoInit == InitWith(TwoTrees)

\* the offsets the two readers are created at: the start of the archive,
\* the start of the file and the byte after it
TwoSeekOffsets == {0, TAR_BLOCK_SIZE, TAR_BLOCK_SIZE + 1}

\* the calls of the two readers, every file handle call succeeding
TwoReadNext ==
    \/ \E o \in TwoSeekOffsets : Seek(o)
    \/ \E len \in BufLens : ReadCall(len)
    \/ ReadReturn
    \/ ReadSkip
    \/ ReadStatic
    \/ ReadZeroes
    \/ FileSeek
    \/ FileReadEof
    \/ FileReadData
    \/ FileReturn

TwoNext == ScanNext \/ TwoReadNext \/ Switch

TwoSpec == TwoInit /\ [][TwoNext]_vars

-----------------------------------------------------------------------------
(* Positions in the archive *)

InCall == pc \in {"loop", "file", "file_ret"}

\* the bytes of one segment when no backing file has changed
SegmentBytes(segment) ==
    CASE segment.type = "Static" -> Run("hdr", segment.path, 0, segment.size)
      [] segment.type = "File" -> Run("dat", segment.path, 0, segment.size)
      [] segment.type = "Zeroes" -> ZeroRun(segment.size)

\* the archive when no backing file has changed
Archive == Pack([i \in DOMAIN segments |-> SegmentBytes(segments[i])])

-----------------------------------------------------------------------------
(* C1 *)

\* C1: a File segment read that starts before the recorded size while the
\* file is shorter than recorded returns min(recordedSize - offset,
\* buf.len()): the zeroes written past the end of the file are counted.
C1_ShrunkReadCountsZeroes ==
    (/\ pc = "file_ret"
     /\ disk[Segment.path] < Segment.size
     /\ cur.offset < Segment.size)
    => nbytes = Min(Segment.size - cur.offset, SliceLen)

-----------------------------------------------------------------------------
(* C2 *)

\* the bytes of a string that come from a backing file
RECURSIVE FileBytesIn(_)
FileBytesIn(rs) ==
    IF rs = <<>> THEN 0
    ELSE (IF Head(rs).tag = "dat" THEN Head(rs).len ELSE 0) + FileBytesIn(Tail(rs))

\* the recorded sizes of the File segments, summed
RECURSIVE RecordedBytes(_)
RecordedBytes(n) ==
    IF n = 0 THEN 0
    ELSE RecordedBytes(n - 1) + (IF segments[n].type = "File" THEN segments[n].size ELSE 0)

\* C2: a File segment read returns a count n with n <= buf.len() and
\* offset + n <= recordedSize, however long the file has become; the cursor
\* never stands past the recorded size of a content segment, and the bytes
\* it has delivered hold no more file bytes than were recorded.
C2_GrownReadBounded ==
    /\ pc = "file_ret" =>
          /\ nbytes <= SliceLen
          /\ cur.offset + nbytes <= Segment.size
    /\ (phase = "ready" /\ HasSegment /\ Segment.type = "File") =>
          cur.offset <= Segment.size
    /\ phase = "ready" => FileBytesIn(out) <= RecordedBytes(Len(segments))

\* a segment read has run past the recorded size of a file that has grown,
\* and returns the clamped count
C2_Witness ==
    /\ pc = "file_ret"
    /\ disk[Segment.path] > Segment.size
    /\ fpos[Segment.path] > Segment.size
    /\ nbytes > 0
    /\ cur.offset + nbytes = Segment.size

-----------------------------------------------------------------------------
(* C3 *)

\* C3: every call of SeekReader::read returns.
C3_ReadTerminates == InCall ~> (pc = "idle")

-----------------------------------------------------------------------------
(* C4 *)

\* the bytes delivered at the positions of the Static and Zeroes segments
\* are those of the archive of the unchanged tree
FramingStable ==
    \A k \in DOMAIN segments :
        LET a == Max(CumulativeBefore(k), seekpos)
            b == Min(CumulativeBefore(k + 1), seekpos + Size(out))
        IN (segments[k].type # "File" /\ a < b) =>
              Slice(out, a - seekpos, b - seekpos) = Slice(Archive, a, b)

\* C4: a read from seek(0) into a buffer longer than the archive delivers
\* exactly TotalLength bytes, the Static and Zeroes bytes among them at
\* their offsets, whatever happens to the sizes of the backing files
\* (unless a file read fails with an I/O error).
C4_SequentialReadDelivers ==
    (pc = "loop" /\ seekpos = 0 /\ reads = 0 /\ want > TotalLength)
    ~> (/\ pc = "idle"
        /\ \/ result = Err
           \/ (result = Ok(TotalLength) /\ Size(out) = TotalLength /\ FramingStable))

\* what C4 says of the calls that do return: the Static and Zeroes bytes
\* delivered are in place and the cursor stands where the delivered bytes end
C4_FramingOfReturnedReads ==
    (phase = "ready" /\ pc = "idle" /\ ~erred) =>
        /\ FramingStable
        /\ Position = seekpos + Size(out)

-----------------------------------------------------------------------------
(* C5 *)

\* C5: with the backing files unchanged, a read of len bytes at position p
\* delivers the bytes [p, min(p + len, TotalLength)) of the archive, and so
\* do the reads that follow it on the cursor: however a range is cut into
\* seek + read calls, the bytes delivered are those one seek + read delivers.
C5_ChunkingKeepsBytes ==
    (phase = "ready" /\ pc = "idle" /\ resized = {} /\ ~erred) =>
        /\ out = Slice(Archive, seekpos, seekpos + Size(out))
        /\ result.kind = "ok" =>
              result.n = Min(want, SatSub(TotalLength, seekpos + Size(out) - result.n))

\* two reads on one cursor have delivered header, file and padding bytes
C5_Witness ==
    /\ pc = "idle"
    /\ resized = {}
    /\ reads = 2
    /\ seekpos > 0
    /\ \E i, j, k \in DOMAIN out :
          out[i].tag = "hdr" /\ out[j].tag = "dat" /\ out[j].len > 1 /\ out[k].tag = "zero"

-----------------------------------------------------------------------------
(* C6 *)

\* C6: once scan has returned, no seek, read or change of a backing file
\* changes the segment list or the total length, the sum of the segments'
\* byte sizes.
C6_IndexFrozen ==
    [][phase = "ready" => (segments' = segments /\ TotalLength' = TotalLength)]_vars

\* a file has changed size and the cursor has read past it
C6_Witness ==
    /\ phase = "ready"
    /\ pc = "idle"
    /\ resized # {}
    /\ reads > 0
    /\ \E p \in resized : disk[p] # NodeAt(tree, p).size
    /\ Size(out) = TotalLength

-----------------------------------------------------------------------------
(* C7 *)

\* C7: seek(offset) with offset < TotalLength puts the cursor on the one
\* segment k with CumulativeBefore(k) <= offset < CumulativeBefore(k) +
\* byte_size(k), never a segment of length zero, at offset -
\* CumulativeBefore(k) in it; with offset >= TotalLength it puts the cursor
\* past the last segment, and every read after that returns Ok(0).
C7_SeekLocates ==
    /\ (phase = "ready" /\ pc = "idle" /\ reads = 0) =>
          IF seekpos < TotalLength
          THEN /\ cur.idx \in DOMAIN segments
               /\ segments[cur.idx].size > 0
               /\ CumulativeBefore(cur.idx) <= seekpos
               /\ seekpos < CumulativeBefore(cur.idx) + segments[cur.idx].size
               /\ cur.offset = seekpos - CumulativeBefore(cur.idx)
               /\ \A k \in DOMAIN segments :
                     (/\ CumulativeBefore(k) <= seekpos
                      /\ seekpos < CumulativeBefore(k) + segments[k].size) => k = cur.idx
          ELSE cur.idx = Len(segments) + 1
    /\ (phase = "ready" /\ pc = "idle" /\ reads > 0 /\ seekpos >= TotalLength) =>
          result = Ok(0)

\* seek has passed over a segment of length zero that starts at the offset
C7_Witness ==
    /\ phase = "ready" /\ pc = "idle" /\ reads = 0
    /\ seekpos < TotalLength
    /\ cur.offset = 0
    /\ \E k \in DOMAIN segments :
          k < cur.idx /\ segments[k].size = 0 /\ CumulativeBefore(k) = seekpos

-----------------------------------------------------------------------------
(* C8 *)

\* C8: a read returns a count below buf.len() only when the cursor has
\* consumed the last segment; an Err comes from a backing file and never
\* from the end of the archive; once a read with a non-empty buffer has
\* returned 0, every later read on the cursor returns 0.
C8_ShortOnlyAtEnd ==
    (phase = "ready" /\ pc = "idle") =>
        /\ (result.kind = "ok" /\ result.n < want) =>
              (cur.idx = Len(segments) + 1 /\ Position >= TotalLength)
        /\ result.kind = "err" =>
              (cur.idx \in DOMAIN segments /\ segments[cur.idx].type = "File")
        /\ sawzero => result = Ok(0)

\* after the sizes of the files have changed, a read has returned a short
\* count, and the read after it 0
C8_Witness ==
    /\ pc = "idle"
    /\ resized # {}
    /\ sawzero
    /\ reads = 2
    /\ Size(out) > 0

-----------------------------------------------------------------------------
(* C9 *)

SegmentSet == {segments[i] : i \in DOMAIN segments}

\* C9: only regular files and directories have segments in the index.
C9_OnlyRegularEntriesIndexed ==
    \A seg \in SegmentSet :
        seg.type # "Zeroes" => NodeAt(tree, seg.path).kind \in {"file", "dir"}

\* what C9 says of symlinks: no segment belongs to a symlink
C9_SymlinksSkipped ==
    \A seg \in SegmentSet :
        seg.type # "Zeroes" => NodeAt(tree, seg.path).kind # "symlink"

-----------------------------------------------------------------------------
(* C10 *)

\* the entries of a tree in traversal order, symlinks left out
RECURSIVE Visited(_, _, _)
Visited(path, kids, i) ==
    IF i > Len(kids) THEN <<>>
    ELSE (IF kids[i].kind = "symlink" THEN <<>> ELSE <<Append(path, i)>>)
         \o (IF kids[i].kind = "dir" THEN Visited(Append(path, i), kids[i].kids, 1)
             ELSE <<>>)
         \o Visited(path, kids, i + 1)

\* the segments of the entries at paths ps, in order, when every entry that
\* cannot be opened is taken out of ps first
RECURSIVE SegmentsOfOpenable(_)
SegmentsOfOpenable(ps) ==
    IF ps = <<>> THEN <<>>
    ELSE LET p == Head(ps)
             n == NodeAt(tree, p)
             pad == (TAR_BLOCK_SIZE - (n.size % TAR_BLOCK_SIZE)) % TAR_BLOCK_SIZE
             mine == <<[type |-> "Static", path |-> p, size |-> TAR_BLOCK_SIZE],
                       [type |-> "File", path |-> p, size |-> n.size]>>
                     \o (IF pad = 0 THEN <<>>
                         ELSE <<[type |-> "Zeroes", path |-> <<>>, size |-> pad]>>)
         IN (IF n.openable THEN mine ELSE <<>>) \o SegmentsOfOpenable(Tail(ps))

\* C10: when files cannot be opened, the index scan returns is the one of
\* the tree without them: nothing is emitted for an entry that
\* cannot be opened, and the segments of the other entries are unchanged.
C10_UnopenableEntryOmitted ==
    phase = "ready" =>
          segments = SegmentsOfOpenable(Visited(<<>>, tree, 1))
                     \o <<[type |-> "Zeroes", path |-> <<>>, size |-> 2 * TAR_BLOCK_SIZE]>>

\* scan has returned an index of a tree in which a file that cannot be
\* opened comes before one that can
C10_Witness ==
    /\ phase = "ready"
    /\ Len(tree) = 2
    /\ tree[1].kind = "file" /\ ~tree[1].openable
    /\ tree[2].kind = "file" /\ tree[2].openable /\ tree[2].size = 513
    /\ Len(segments) = 4

-----------------------------------------------------------------------------
(* C11 *)

\* C11: when a call of the scan fails (read_dir, metadata, set_path or
\* entry_size, at any entry of the tree), scan returns Err and no index:
\* the scan never gets to return an index, and after the failure nothing
\* is left of the segments built for the entries before it.
C11_FatalScanErrorNoIndex ==
    /\ fault # NoFault => phase # "ready"
    /\ phase = "failed" => (fault # NoFault /\ segments = <<>> /\ pc = "none")

\* the size of the second entry cannot be read after the first entry has
\* been mapped to its segments, and the scan has failed
C11_Witness ==
    /\ phase = "failed"
    /\ fault = Fault("entry_size", <<2>>)
    /\ tree[1] = File(5, TRUE)

-----------------------------------------------------------------------------
(* C12 *)

\* the error kinds in a sequence
Kinds(errs) == {errs[i] : i \in DOMAIN errs}

\* C12: a read call goes on only while every error of a file handle was
\* Interrupted; it returns Err exactly when a file handle returned another
\* error, and then the caller gets no count and no bytes, whatever the call
\* had put in the buffer; an Interrupted error alone never makes it return
\* Err.
C12_ErrAbortsInterruptedRetried ==
    /\ [](InCall => "Other" \notin Kinds(ioerrs))
    /\ []((pc = "idle" /\ reads > 0) => (result = Err <=> "Other" \in Kinds(ioerrs)))
    /\ [][(InCall /\ "Other" \in Kinds(ioerrs')) => (pc' = "idle" /\ out' = out)]_vars

\* the first read of a cursor has filled part of the buffer from the
\* segments before a file, retried an interrupted file.read, and returned
\* the error of the next file.read: the cursor has moved on but no byte was
\* delivered
C12_Witness ==
    /\ pc = "idle"
    /\ reads = 1
    /\ result = Err
    /\ ioerrs = <<"Interrupted", "Other">>
    /\ out = <<>>
    /\ Position > seekpos

-----------------------------------------------------------------------------
(* C13 *)

\* what a reader that is the only one of its index has got between two
\* calls (C5): the bytes of the archive from the offset it was created at
\* on, the cursor standing where they end
AsIfAlone(r) ==
    (r.pc = "idle" /\ ~r.erred) =>
        /\ r.out = Slice(Archive, r.seekpos, r.seekpos + Size(r.out))
        /\ CumulativeBefore(r.cur.idx) + r.cur.offset = r.seekpos + Size(r.out)
        /\ r.result.kind = "ok" =>
              r.result.n = Min(r.want, SatSub(TotalLength, r.seekpos + Size(r.out) - r.result.n))

\* C13: whatever the order in which the caller makes the read calls of two
\* readers of one index, each reader gets what it would get alone.
C13_CursorsIndependent ==
    phase = "ready" =>
        /\ AsIfAlone(Reader(cur, seekpos, pc, want, result, out, reads, sawzero, erred, ioerrs))
        /\ AsIfAlone(parked)

\* a reader that has read the file up to a position inside it makes its
\* second call after the other reader has read from the same file and left
\* the handle elsewhere
C13_Witness ==
    /\ pc = "loop"
    /\ reads = 1
    /\ ~erred
    /\ parked.reads > 0
    /\ HasSegment /\ Segment.type = "File"
    /\ cur.offset > 0
    /\ out # <<>> /\ out[Len(out)].tag = "dat"
    /\ fpos[Segment.path] # cur.offset

-----------------------------------------------------------------------------
(* C14 *)

\* C14: a built index ends with a Zeroes segment of 2 * 512 = 1024 bytes
\* and has no other segment of that kind and size; the index of a tree with
\* no entries is that segment alone, the archive is 1024 bytes long, and
\* every byte read from it is zero.
C14_TerminatorEndsIndex ==
    phase = "ready" =>
        /\ segments # <<>>
        /\ segments[Len(segments)] = [type |-> "Zeroes", path |-> <<>>, size |-> 1024]
        /\ \A i \in 1..(Len(segments) - 1) :
              ~(segments[i].type = "Zeroes" /\ segments[i].size >= 1024)
        /\ tree = <<>> =>
              /\ Len(segments) = 1
              /\ TotalLength = 1024
              /\ \A i \in DOMAIN out : out[i].tag = "zero"
              /\ \A i \in DOMAIN buf : buf[i].tag \in {"zero", "old"}
              /\ Size(out) <= 1024

\* the whole archive of a tree with no entries has been read
C14_Witness ==
    /\ phase = "ready"
    /\ tree = <<>>
    /\ pc = "idle"
    /\ seekpos = 0
    /\ out = <<[tag |-> "zero", path |-> <<>>, start |-> 0, len |-> 1024]>>

-----------------------------------------------------------------------------
(* C15 *)

\* C15: a segment read at an offset up to the segment's byte size returns
\* min(byte_size - offset, buf.len()), for a Static, a File and a Zeroes
\* segment alike.
C15_SegmentReadCount ==
    /\ pc = "file_ret" =>
          nbytes = Min(byte_size(Segment) - cur.offset, SliceLen)
    /\ (pc = "loop" /\ HasSegment /\ cur.offset <= byte_size(Segment)) =>
          /\ Segment.type = "Static" =>
                StaticCount(Segment, cur.offset, SliceLen)
                    = Min(byte_size(Segment) - cur.offset, SliceLen)
          /\ Segment.type = "Zeroes" =>
                ZeroesCount(Segment, cur.offset, SliceLen)
                    = Min(byte_size(Segment) - cur.offset, SliceLen)

\* what C15 says of the reads of a file that is not shorter than recorded
C15_CountUnlessShrunk ==
    (pc = "file_ret" /\ disk[Segment.path] >= Segment.size) =>
        nbytes = Min(byte_size(Segment) - cur.offset, SliceLen)

-----------------------------------------------------------------------------
(* C16 *)

\* segment k is a header, or the last segment
HeaderOrLast(k) == k = Len(segments) \/ (k < Len(segments) /\ segments[k].type = "Static")

\* C16: in a built index every header is 512 bytes at an offset that is a
\* multiple of 512 and is followed by the content segment of its entry, of
\* the entry's size s; after the content comes a Zeroes segment of
\* 512 - (s mod 512) bytes when s mod 512 is not 0 and no padding
\* otherwise; content and padding come nowhere else, and the total length
\* is a multiple of 512.
C16_BlockAligned ==
    phase = "ready" =>
        /\ TotalLength % 512 = 0
        /\ HeaderOrLast(1)
        /\ \A k \in DOMAIN segments :
              segments[k].type = "Static" =>
                  /\ segments[k].size = 512
                  /\ CumulativeBefore(k) % 512 = 0
                  /\ k + 1 < Len(segments)
                  /\ segments[k + 1].type = "File"
                  /\ segments[k + 1].path = segments[k].path
                  /\ segments[k + 1].size = NodeAt(tree, segments[k].path).size
                  /\ LET s == segments[k + 1].size
                     IN IF s % 512 # 0
                        THEN /\ segments[k + 2] = [type |-> "Zeroes", path |-> <<>>,
                                                   size |-> 512 - (s % 512)]
                             /\ HeaderOrLast(k + 3)
                        ELSE HeaderOrLast(k + 2)

\* the index of a file of 513 bytes and a file of 512 bytes
C16_Witness ==
    /\ phase = "ready"
    /\ Len(tree) = 2
    /\ tree[1] = File(513, TRUE)
    /\ tree[2] = File(512, TRUE)
    /\ Len(segments) = 6

-----------------------------------------------------------------------------
(* C17 *)

\* C17: no step of a read call moves the cursor's absolute position back;
\* a call that returns Ok(n) leaves the cursor n bytes after the position
\* it began at; and between the calls of a cursor none of whose reads has
\* failed, the cursor stands right after the last byte delivered.
C17_CursorOnlyForward ==
    /\ [][InCall => Position' >= Position]_vars
    /\ [][(InCall /\ pc' = "idle" /\ result'.kind = "ok")
            => (Position' = callpos + result'.n /\ Size(out') = Size(out) + result'.n)]_vars
    /\ []((phase = "ready" /\ pc = "idle" /\ ~erred) => Position = seekpos + Size(out))

\* the second read of a cursor has returned bytes after those of the first,
\* across a file whose size has changed
C17_Witness ==
    /\ pc = "idle"
    /\ reads = 2
    /\ ~erred
    /\ resized # {}
    /\ result.kind = "ok" /\ result.n > 0
    /\ Size(out) > result.n
    /\ cur.idx > seek(seekpos).idx

-----------------------------------------------------------------------------
(* C18 *)

\* a root holding a.txt (5 bytes) and then sub, a directory holding b.txt
\* (0 bytes): the paths are <<1>>, <<2>> and <<2, 1>>
ExampleTree ==
    <<[kind |-> "file", size |-> 5, openable |-> TRUE, kids |-> <<>>],
      [kind |-> "dir", size |-> 0, openable |-> TRUE,
       kids |-> <<[kind |-> "file", size |-> 0, openable |-> TRUE, kids |-> <<>>]>>]>>

\* C18: the index of that root is header(a.txt) 512, content 5, padding
\* 507, header(sub) 512 with content 0 and no padding, header(b.txt) 512,
\* content 0, no padding, terminator 1024: 3072 bytes in all.
C18_ExampleIndex ==
    (phase = "ready" /\ tree = ExampleTree) =>
        /\ segments =
              <<[type |-> "Static", path |-> <<1>>, size |-> 512],
                [type |-> "File", path |-> <<1>>, size |-> 5],
                [type |-> "Zeroes", path |-> <<>>, size |-> 507],
                [type |-> "Static", path |-> <<2>>, size |-> 512],
                [type |-> "File", path |-> <<2>>, size |-> 0],
                [type |-> "Static", path |-> <<2, 1>>, size |-> 512],
                [type |-> "File", path |-> <<2, 1>>, size |-> 0],
                [type |-> "Zeroes", path |-> <<>>, size |-> 1024]>>
        /\ TotalLength = 3072

\* scan has returned the index of that root
C18_Witness ==
    /\ phase = "ready"
    /\ tree = ExampleTree
    /\ Len(segments) = 8

-----------------------------------------------------------------------------
(* C19 *)

\* C19: the offsets stay in range.  The intra-segment offset of a cursor is
\* never negative (offset - skipped in seek, self.offset -= segment_size in
\* read) and never beyond the byte size of the segment the cursor is on
\* (the range of the Static slice); a File segment read runs only at an
\* offset below the byte size; nread and nbytes stay within the buffer,
\* and the zeroes written after an early end of file start no later than
\* they stop.
C19_OffsetsInRange ==
    (phase = "ready" /\ pc # "none") =>
        /\ cur.idx \in 1..(Len(segments) + 1)
        /\ cur.offset >= 0
        /\ HasSegment => cur.offset <= byte_size(Segment)
        /\ nread >= 0 /\ nread <= Size(buf)
        /\ pc \in {"file", "file_ret"} =>
              /\ HasSegment
              /\ Segment.type = "File"
              /\ cur.offset < byte_size(Segment)
              /\ nbytes >= 0 /\ nread + nbytes <= Size(buf)
        /\ (pc = "file" /\ cur.offset + nbytes < byte_size(Segment)) =>
              nbytes <= FillTo(byte_size(Segment), cur.offset, SliceLen)

\* a File segment read is in progress in a call that has consumed the
\* segments before it, on a file whose size has changed
C19_Witness ==
    /\ pc = "file"
    /\ nread > 0
    /\ nbytes > 0
    /\ resized # {}
    /\ cur.idx > seek(seekpos).idx

=============================================================================
